---- MODULE Spec2Model ----
(***************************************************************************)
(* Model of scripts/automation_worker_app.py: a GitHub App worker that     *)
(* reads a repository_dispatch event, obtains an installation token and    *)
(* dispatches to upload_files or create_pr.                                *)
(*                                                                         *)
(* One run of the script is one behaviour.  The process environment and    *)
(* the file system (does the event file exist) are fixed by Init; the      *)
(* content of the event file and every HTTP response are inputs drawn when *)
(* the code reads them.  Python dicts are functions over a set of keys, so *)
(* d.get(k, default) distinguishes a missing key from a present one.       *)
(* Python's None is the string "None", which is also what an f-string      *)
(* makes of it.  Text that is compared character-wise (owner, login) or    *)
(* encoded (file content) is a sequence; other text is a TLA+ string.      *)
(* An uncaught Python exception ends the process with status 1 and a       *)
(* traceback on standard error, nothing on standard output.                *)
(* Transport failures of the HTTP library are not modelled: every request  *)
(* gets a response.  A 2xx/3xx response body is the JSON shape the GitHub  *)
(* endpoint documents (a list of installations, an object for a file).     *)
(***************************************************************************)
EXTENDS Integers, Sequences, FiniteSets, TLC

VARIABLES
    environ,          \* os.environ: name -> value, for the names that are set
    file_exists,      \* os.path.exists(EVENT_PATH)
    pc,               \* position of the script
    payload,          \* event["client_payload"]
    jwt_token,        \* main: jwt_token
    installs,         \* find_installation_id: installs (r.json())
    installation_id,  \* main: installation_id
    install_token,    \* main: install_token
    idx,              \* main: position of f in files (for f in files)
    body,             \* upload_file: body
    r_get,            \* upload_file: r_get
    r,                \* main: r
    requests,         \* every HTTP request issued so far, in order
    stdout,           \* lines printed, by kind
    stderr,           \* tracebacks of uncaught exceptions, by exception type
    exit_code,        \* process exit status, "running" until the process ends
    api_failure_seen  \* history: some response so far was an error (not r.ok),
                      \* a 404 to the metadata GET not counted

vars == <<environ, file_exists, pc, payload, jwt_token, installs, installation_id,
          install_token, idx, body, r_get, r, requests, stdout, stderr, exit_code,
          api_failure_seen>>

-----------------------------------------------------------------------------
(* Bounds *)

MaxFiles == 2
MaxInstalls == 2

-----------------------------------------------------------------------------
(* Python values *)

None == "None"
EmptyDict == [k \in {} |-> ""]

Get(d, k, default) == IF k \in DOMAIN d THEN d[k] ELSE default

DictSet(d, k, v) == [x \in DOMAIN d \cup {k} |-> IF x = k THEN v ELSE d[x]]

\* The dicts with no key or with the key k bound to one of vals.
Opt(k, vals) == {EmptyDict} \cup {[x \in {k} |-> v] : v \in vals}

NoResponse == [status_code |-> 0, json |-> EmptyDict]

\* requests.Response.ok / raise_for_status: an error is a 4xx or a 5xx status.
Ok(resp) == ~(400 <= resp.status_code /\ resp.status_code < 600)

-----------------------------------------------------------------------------
(* Text *)

UpperChars == <<"A", "C", "M", "E">>
LowerChars == <<"a", "c", "m", "e">>

LowerChar(c) ==
    IF \E i \in 1..Len(UpperChars) : UpperChars[i] = c
    THEN LowerChars[CHOOSE i \in 1..Len(UpperChars) : UpperChars[i] = c]
    ELSE c

\* A case-sensitive comparison: the text is left as it is.
LowerOmitted(s) == s

\* str.lower(), on the letters the logins and owners of this model are made of
Lower(s) == [i \in 1..Len(s) |-> LowerChar(s[i])]

NoneText == <<"N", "o", "n", "e">>

\* str.encode("utf-8") of one code point
Utf8Char(cp) ==
    IF cp < 128 THEN <<cp>>
    ELSE IF cp < 2048 THEN <<192 + (cp \div 64), 128 + (cp % 64)>>
    ELSE IF cp < 65536
         THEN <<224 + (cp \div 4096), 128 + ((cp \div 64) % 64), 128 + (cp % 64)>>
         ELSE <<240 + (cp \div 262144), 128 + ((cp \div 4096) % 64),
                128 + ((cp \div 64) % 64), 128 + (cp % 64)>>

RECURSIVE Utf8Encode(_)
Utf8Encode(s) == IF s = <<>> THEN <<>> ELSE Utf8Char(Head(s)) \o Utf8Encode(Tail(s))

B64Chars ==
    <<"A", "B", "C", "D", "E", "F", "G", "H", "I", "J", "K", "L", "M", "N", "O", "P",
      "Q", "R", "S", "T", "U", "V", "W", "X", "Y", "Z", "a", "b", "c", "d", "e", "f",
      "g", "h", "i", "j", "k", "l", "m", "n", "o", "p", "q", "r", "s", "t", "u", "v",
      "w", "x", "y", "z", "0", "1", "2", "3", "4", "5", "6", "7", "8", "9", "+", "/">>

B64Char(n) == B64Chars[n + 1]

\* base64.b64encode(...).decode("utf-8")
RECURSIVE B64Encode(_)
B64Encode(b) ==
    IF Len(b) = 0 THEN <<>>
    ELSE IF Len(b) = 1
         THEN <<B64Char(b[1] \div 4), B64Char((b[1] % 4) * 16), "=", "=">>
    ELSE IF Len(b) = 2
         THEN <<B64Char(b[1] \div 4), B64Char((b[1] % 4) * 16 + (b[2] \div 16)),
                B64Char((b[2] % 16) * 4), "=">>
    ELSE <<B64Char(b[1] \div 4), B64Char((b[1] % 4) * 16 + (b[2] \div 16)),
           B64Char((b[2] % 16) * 4 + (b[3] \div 64)), B64Char(b[3] % 64)>>
         \o B64Encode(SubSeq(b, 4, Len(b)))

-----------------------------------------------------------------------------
(* Inputs: the environment, the event file, the responses of the API *)

Environs ==
    {a @@ k @@ p @@ i :
        a \in Opt("APP_ID", {"", "12345", "not-a-number"}),
        k \in Opt("APP_PRIVATE_KEY", {"", "PEM", "not-a-key"}),
        p \in Opt("GITHUB_EVENT_PATH", {"", "/github/workflow/event.json"}),
        i \in Opt("INSTALLATION_ID", {"", "77"})}

\* What int(app_id) and jwt.encode(..., algorithm="RS256") accept.
IntegerTexts == {"12345"}
RsaPrivateKeys == {"PEM"}

Descriptors ==
    { [path |-> "docs/a.md", content |-> <<65, 8364>>, message |-> "add a",
       branch |-> "dev"],
      [path |-> "b.txt", content |-> <<233>>],
      [path |-> "c.txt", message |-> "add c", branch |-> ""],
      [content |-> <<72, 105, 33>>, branch |-> "dev"] }

RECURSIVE SeqsUpTo(_, _)
SeqsUpTo(S, n) ==
    IF n = 0 THEN {<<>>}
    ELSE SeqsUpTo(S, n - 1) \cup
         {Append(q, x) : q \in {t \in SeqsUpTo(S, n - 1) : Len(t) = n - 1}, x \in S}

Owners == {<<>>, <<"A", "c", "m", "e">>}

CommonFields ==
    {o @@ t @@ rp :
        o \in Opt("owner", Owners),
        t \in Opt("owner_type", {"Organization"}),
        rp \in Opt("repo", {"", "site"})}

UploadPayloads ==
    {[action |-> "upload_files"] @@ c @@ f :
        c \in CommonFields, f \in Opt("files", SeqsUpTo(Descriptors, MaxFiles))}

PrPayloads ==
    {[action |-> "create_pr"] @@ c @@ h @@ b @@ t @@ x :
        c \in CommonFields,
        h \in Opt("head", {"", "feature"}),
        b \in Opt("base", {"develop"}),
        t \in Opt("title", {"Release"}),
        x \in Opt("body", {"notes"})}

OtherPayloads ==
    {a @@ c : a \in Opt("action", {"update_file"}), c \in CommonFields}

Payloads == UploadPayloads \cup PrPayloads \cup OtherPayloads

\* The JSON documents the event file may hold.
Events == {EmptyDict} \cup {[client_payload |-> p] : p \in Payloads}

StatusCodes == {200, 201, 304, 403, 404, 422, 500}

\* One installation of GET /app/installations.
Installations ==
    { [id |-> "1", account |-> [login |-> <<"a", "c", "m", "e">>]],
      [id |-> "2", account |-> [login |-> <<"A", "C", "M", "E">>]],
      [id |-> "3", account |-> [login |-> <<"o", "t", "h", "e", "r">>]],
      [id |-> "4", account |-> EmptyDict] }

InstallationLists == SeqsUpTo(Installations, MaxInstalls)

TokenBodies == Opt("token", {"ghs_token"})

ContentBodies == Opt("sha", {"3b18e512"})

-----------------------------------------------------------------------------
(* Module top level, lines 19-36 *)

GITHUB_API == Get(environ, "GITHUB_API_URL", "https://api.github.com")
APP_ID == Get(environ, "APP_ID", None)
APP_PRIVATE_KEY == Get(environ, "APP_PRIVATE_KEY", None)
EVENT_PATH == Get(environ, "GITHUB_EVENT_PATH", None)

Falsy(s) == s = None \/ s = ""

action == Get(payload, "action", None)

\* sys.exit(code) after print(line)
Fail(line) ==
    /\ stdout' = Append(stdout, line)
    /\ exit_code' = "1"
    /\ pc' = "exited"
    /\ stderr' = stderr

\* An uncaught exception: traceback on standard error, status 1.
Raise(exc) ==
    /\ stderr' = Append(stderr, exc)
    /\ exit_code' = "1"
    /\ pc' = "exited"
    /\ stdout' = stdout

Init ==
    /\ environ \in Environs
    /\ file_exists \in BOOLEAN
    /\ pc = "check_identity"
    /\ payload = EmptyDict
    /\ jwt_token = None
    /\ installs = <<>>
    /\ installation_id = None
    /\ install_token = None
    /\ idx = 0
    /\ body = EmptyDict
    /\ r_get = NoResponse
    /\ r = NoResponse
    /\ requests = <<>>
    /\ stdout = <<>>
    /\ stderr = <<>>
    /\ exit_code = "running"
    /\ api_failure_seen = FALSE

\* "and" for "or": the run stops only when both identity fields are missing.
CheckIdentityBothMissing ==
    /\ pc = "check_identity"
    /\ IF Falsy(APP_ID) /\ Falsy(APP_PRIVATE_KEY)
       THEN Fail("ERROR: APP_ID and APP_PRIVATE_KEY must be set as repo secrets.")
       ELSE pc' = "check_event_path" /\ UNCHANGED <<stdout, stderr, exit_code>>
    /\ UNCHANGED <<environ, file_exists, payload, jwt_token, installs, installation_id,
                   install_token, idx, body, r_get, r, requests, api_failure_seen>>

\* lines 23-25
CheckIdentity ==
    /\ pc = "check_identity"
    /\ IF Falsy(APP_ID) \/ Falsy(APP_PRIVATE_KEY)
       THEN Fail("ERROR: APP_ID and APP_PRIVATE_KEY must be set as repo secrets.")
       ELSE pc' = "check_event_path" /\ UNCHANGED <<stdout, stderr, exit_code>>
    /\ UNCHANGED <<environ, file_exists, payload, jwt_token, installs, installation_id,
                   install_token, idx, body, r_get, r, requests, api_failure_seen>>

\* lines 27-30
CheckEventPath ==
    /\ pc = "check_event_path"
    /\ IF Falsy(EVENT_PATH) \/ ~file_exists
       THEN Fail("ERROR: GITHUB_EVENT_PATH not found.")
       ELSE pc' = "load_event" /\ UNCHANGED <<stdout, stderr, exit_code>>
    /\ UNCHANGED <<environ, file_exists, payload, jwt_token, installs, installation_id,
                   install_token, idx, body, r_get, r, requests, api_failure_seen>>

\* lines 32-36, the file holding a JSON object
LoadEvent ==
    /\ pc = "load_event"
    /\ \E event \in Events :
           payload' = Get(event, "client_payload", EmptyDict)
    /\ pc' = "main"
    /\ UNCHANGED <<environ, file_exists, jwt_token, installs, installation_id,
                   install_token, idx, body, r_get, r, requests, stdout, stderr,
                   exit_code, api_failure_seen>>

\* lines 32-33, the file not holding JSON: json.load raises
LoadEventMalformed ==
    /\ pc = "load_event"
    /\ Raise("json.JSONDecodeError")
    /\ UNCHANGED <<environ, file_exists, payload, jwt_token, installs, installation_id,
                   install_token, idx, body, r_get, r, requests, api_failure_seen>>

-----------------------------------------------------------------------------
(* HTTP *)

Url(endpoint, owner_text, repo_text, rest) ==
    [api |-> GITHUB_API, endpoint |-> endpoint, owner |-> owner_text,
     repo |-> repo_text, rest |-> rest]

Request(method, url, auth, json_body) ==
    [method |-> method, url |-> url, auth |-> auth, json |-> json_body]

\* f"Bearer {jwt_token}", lines 49 and 62
Bearer(t) == <<"Bearer", t>>
\* f"token {token}", lines 70, 74 and 78
TokenAuth(t) == <<"token", t>>

-----------------------------------------------------------------------------
(* main, lines 102-124 *)

HasOwner == "owner" \in DOMAIN payload
\* f"{owner}" in a URL
OwnerText == IF HasOwner THEN payload.owner ELSE NoneText
NotOwner == ~HasOwner \/ payload.owner = <<>>
repo == Get(payload, "repo", None)

\* The action is validated with the owner, before the token is fetched.
ValidateOwnerAndAction ==
    /\ pc = "main"
    /\ IF NotOwner /\ Falsy(Get(payload, "owner_type", None))
       THEN Fail("ERROR: client_payload.owner is required to locate installation.")
       ELSE IF action \notin {"upload_files", "create_pr"}
       THEN Fail("Unknown or missing action in client_payload:")
       ELSE pc' = "create_jwt" /\ UNCHANGED <<stdout, stderr, exit_code>>
    /\ UNCHANGED <<environ, file_exists, payload, jwt_token, installs, installation_id,
                   install_token, idx, body, r_get, r, requests, api_failure_seen>>

\* lines 103-107
ValidateOwner ==
    /\ pc = "main"
    /\ IF NotOwner /\ Falsy(Get(payload, "owner_type", None))
       THEN Fail("ERROR: client_payload.owner is required to locate installation.")
       ELSE pc' = "create_jwt" /\ UNCHANGED <<stdout, stderr, exit_code>>
    /\ UNCHANGED <<environ, file_exists, payload, jwt_token, installs, installation_id,
                   install_token, idx, body, r_get, r, requests, api_failure_seen>>

\* line 110, create_jwt lines 39-45
CreateJwt ==
    /\ pc = "create_jwt"
    /\ IF APP_ID \notin IntegerTexts
       THEN Raise("ValueError") /\ UNCHANGED jwt_token
       ELSE IF APP_PRIVATE_KEY \notin RsaPrivateKeys
       THEN Raise("jwt.InvalidKeyError") /\ UNCHANGED jwt_token
       ELSE /\ jwt_token' = "jwt"
            /\ pc' = "resolve"
            /\ UNCHANGED <<stdout, stderr, exit_code>>
    /\ UNCHANGED <<environ, file_exists, payload, installs, installation_id,
                   install_token, idx, body, r_get, r, requests, api_failure_seen>>

installation_id_env == Get(environ, "INSTALLATION_ID", None)

\* A precedence slip: the override is used only when no owner is given.
OverrideOnlyWithoutOwner == ~Falsy(installation_id_env) /\ NotOwner

\* line 114: if installation_id_env
UseOverride == ~Falsy(installation_id_env)

\* lines 113-115
UseInstallationIdEnv ==
    /\ pc = "resolve"
    /\ UseOverride
    /\ installation_id' = installation_id_env
    /\ pc' = "create_token"
    /\ UNCHANGED <<environ, file_exists, payload, jwt_token, installs, install_token,
                   idx, body, r_get, r, requests, stdout, stderr, exit_code,
                   api_failure_seen>>

\* lines 116-117, find_installation_id lines 49-53
ListInstallations ==
    /\ pc = "resolve"
    /\ ~UseOverride
    /\ requests' = Append(requests,
           Request("GET", Url("app/installations", <<>>, "", ""), Bearer(jwt_token),
                   EmptyDict))
    /\ \E status \in StatusCodes :
          LET resp == [status_code |-> status, json |-> EmptyDict] IN
          /\ api_failure_seen' = (api_failure_seen \/ ~Ok(resp))
          /\ IF ~Ok(resp)
             THEN Raise("requests.HTTPError") /\ UNCHANGED installs
             ELSE /\ \E list \in InstallationLists : installs' = list
                  /\ pc' = "find_match"
                  /\ UNCHANGED <<stdout, stderr, exit_code>>
    /\ UNCHANGED <<environ, file_exists, payload, jwt_token, installation_id,
                   install_token, idx, body, r_get, r>>

Login(inst) == Get(Get(inst, "account", EmptyDict), "login", <<>>)

\* find_installation_id lines 54-58, for an owner_login that is a str
RECURSIVE FindInstallationIdFrom(_, _, _)
FindInstallationIdFrom(list, owner_login, i) ==
    IF i > Len(list) THEN None
    ELSE IF Lower(Login(list[i])) = Lower(owner_login)
         THEN Get(list[i], "id", None)
         ELSE FindInstallationIdFrom(list, owner_login, i + 1)

FindInstallationId(list, owner_login) == FindInstallationIdFrom(list, owner_login, 1)

\* find_installation_id lines 54-58, lines 117-120
FindMatch ==
    /\ pc = "find_match"
    /\ installs' = <<>>
    /\ IF ~HasOwner /\ installs # <<>>
       THEN \* None.lower() on the first installation
            Raise("AttributeError") /\ UNCHANGED installation_id
       ELSE LET found == IF HasOwner THEN FindInstallationId(installs, payload.owner)
                         ELSE None IN
            /\ installation_id' = found
            /\ IF Falsy(found)
               THEN Fail("ERROR: No installation found for owner")
               ELSE pc' = "create_token" /\ UNCHANGED <<stdout, stderr, exit_code>>
    /\ UNCHANGED <<environ, file_exists, payload, jwt_token, install_token, idx, body,
                   r_get, r, requests, api_failure_seen>>

\* lines 123-124, create_installation_token lines 61-66
CreateInstallationToken ==
    /\ pc = "create_token"
    /\ requests' = Append(requests,
           Request("POST",
                   Url("app/installations/access_tokens", <<>>, "", installation_id),
                   Bearer(jwt_token), EmptyDict))
    /\ \E status \in StatusCodes, json \in TokenBodies :
          LET resp == [status_code |-> status, json |-> json]
              token == Get(json, "token", None) IN
          /\ api_failure_seen' = (api_failure_seen \/ ~Ok(resp))
          /\ IF ~Ok(resp)
             THEN Raise("requests.HTTPError") /\ UNCHANGED install_token
             ELSE /\ install_token' = token
                  /\ IF token = None
                     THEN \* len(None)
                          Raise("TypeError")
                     ELSE /\ stdout' = Append(stdout, "Got installation token (length):")
                          /\ pc' = "dispatch"
                          /\ UNCHANGED <<stderr, exit_code>>
    /\ UNCHANGED <<environ, file_exists, payload, jwt_token, installs, installation_id,
                   idx, body, r_get, r>>

-----------------------------------------------------------------------------
(* main, lines 126-157: the dispatcher *)

files == Get(payload, "files", <<>>)
head == Get(payload, "head", None)

\* lines 127-131, 142-149, 155-157
Dispatch ==
    /\ pc = "dispatch"
    /\ IF action = "upload_files"
       THEN IF Falsy(repo) \/ files = <<>>
            THEN Fail("ERROR: repo and files are required for upload_files")
                 /\ UNCHANGED idx
            ELSE /\ idx' = 1
                 /\ pc' = "upload_get"
                 /\ UNCHANGED <<stdout, stderr, exit_code>>
       ELSE IF action = "create_pr"
       THEN /\ UNCHANGED idx
            /\ IF Falsy(repo) \/ Falsy(head)
               THEN Fail("ERROR: repo and head are required for create_pr")
               ELSE pc' = "create_pr" /\ UNCHANGED <<stdout, stderr, exit_code>>
       ELSE Fail("Unknown or missing action in client_payload:") /\ UNCHANGED idx
    /\ UNCHANGED <<environ, file_exists, payload, jwt_token, installs, installation_id,
                   install_token, body, r_get, r, requests, api_failure_seen>>

ContentsUrl(f) == Url("repos/contents", OwnerText, repo, Get(f, "path", None))

\* upload_file lines 84-87, called with the arguments of lines 133-136
InitialBody(f) ==
    LET b64 == B64Encode(Utf8Encode(Get(f, "content", <<>>)))
        first == [message |-> Get(f, "message", "automation upload"), content |-> b64]
        branch == Get(f, "branch", None)
    IN  IF ~Falsy(branch) THEN DictSet(first, "branch", branch) ELSE first

\* The hash is taken from every response but a 404.
WithShaUnless404(b, resp) ==
    IF resp.status_code # 404 THEN DictSet(b, "sha", Get(resp.json, "sha", None)) ELSE b

\* upload_file lines 90-92
WithSha(b, resp) ==
    IF resp.status_code = 200 THEN DictSet(b, "sha", Get(resp.json, "sha", None)) ELSE b

\* lines 132-136, upload_file lines 83-92
UploadGet ==
    /\ pc = "upload_get"
    /\ LET f == files[idx] IN
       /\ requests' = Append(requests,
              Request("GET", ContentsUrl(f), TokenAuth(install_token), EmptyDict))
       /\ \E status \in StatusCodes :
          \E json \in IF status = 200 THEN ContentBodies ELSE {EmptyDict} :
             LET resp == [status_code |-> status, json |-> json] IN
             /\ r_get' = resp
             /\ body' = WithSha(InitialBody(f), resp)
             /\ api_failure_seen' =
                    (api_failure_seen \/ (~Ok(resp) /\ status # 404))
    /\ pc' = "upload_put"
    /\ UNCHANGED <<environ, file_exists, payload, jwt_token, installs, installation_id,
                   install_token, idx, r, stdout, stderr, exit_code>>

\* upload_file lines 93-94, returning to line 136
UploadPut ==
    /\ pc = "upload_put"
    /\ requests' = Append(requests,
           Request("PUT", ContentsUrl(files[idx]), TokenAuth(install_token), body))
    /\ \E status \in StatusCodes :
          LET resp == [status_code |-> status, json |-> EmptyDict] IN
          /\ r' = resp
          /\ api_failure_seen' = (api_failure_seen \/ ~Ok(resp))
    /\ body' = EmptyDict
    /\ r_get' = NoResponse
    /\ pc' = "upload_check"
    /\ UNCHANGED <<environ, file_exists, payload, jwt_token, installs, installation_id,
                   install_token, idx, stdout, stderr, exit_code>>

\* The loop goes on after a failed PUT; only the last file's result decides.
UploadCheckNoExit ==
    /\ pc = "upload_check"
    /\ IF idx < Len(files)
       THEN /\ stdout' = Append(stdout, "upload_file status")
            /\ idx' = idx + 1
            /\ pc' = "upload_get"
            /\ UNCHANGED <<stderr, exit_code>>
       ELSE IF ~Ok(r)
       THEN /\ stdout' = stdout \o <<"upload_file status", "Response:">>
            /\ exit_code' = "1"
            /\ pc' = "exited"
            /\ UNCHANGED <<stderr, idx>>
       ELSE /\ stdout' = stdout \o <<"upload_file status", "done upload_files">>
            /\ exit_code' = "0"
            /\ pc' = "exited"
            /\ UNCHANGED <<stderr, idx>>
    /\ UNCHANGED <<environ, file_exists, payload, jwt_token, installs, installation_id,
                   install_token, body, r_get, r, requests, api_failure_seen>>

\* lines 137-141
UploadCheck ==
    /\ pc = "upload_check"
    /\ IF ~Ok(r)
       THEN /\ stdout' = stdout \o <<"upload_file status", "Response:">>
            /\ exit_code' = "1"
            /\ pc' = "exited"
            /\ UNCHANGED <<stderr, idx>>
       ELSE IF idx < Len(files)
       THEN /\ stdout' = Append(stdout, "upload_file status")
            /\ idx' = idx + 1
            /\ pc' = "upload_get"
            /\ UNCHANGED <<stderr, exit_code>>
       ELSE /\ stdout' = stdout \o <<"upload_file status", "done upload_files">>
            /\ exit_code' = "0"
            /\ pc' = "exited"
            /\ UNCHANGED <<stderr, idx>>
    /\ UNCHANGED <<environ, file_exists, payload, jwt_token, installs, installation_id,
                   install_token, body, r_get, r, requests, api_failure_seen>>

\* The default branch of older repositories as the default base.
PrDataDefaultMaster ==
    [title |-> Get(payload, "title", "Automated PR"),
     head |-> head,
     base |-> Get(payload, "base", "master"),
     body |-> Get(payload, "body", "")]

\* create_pr line 98, called with the arguments of lines 143-146 and 150
PrData ==
    [title |-> Get(payload, "title", "Automated PR"),
     head |-> head,
     base |-> Get(payload, "base", "main"),
     body |-> Get(payload, "body", "")]

\* line 150, create_pr lines 96-99
CreatePr ==
    /\ pc = "create_pr"
    /\ requests' = Append(requests,
           Request("POST", Url("repos/pulls", OwnerText, repo, ""),
                   TokenAuth(install_token), PrData))
    /\ \E status \in StatusCodes :
          LET resp == [status_code |-> status, json |-> EmptyDict] IN
          /\ r' = resp
          /\ api_failure_seen' = (api_failure_seen \/ ~Ok(resp))
    /\ pc' = "check_pr"
    /\ UNCHANGED <<environ, file_exists, payload, jwt_token, installs, installation_id,
                   install_token, idx, body, r_get, stdout, stderr, exit_code>>

\* lines 151-154
CheckPr ==
    /\ pc = "check_pr"
    /\ IF ~Ok(r)
       THEN Fail("create_pr status")
       ELSE /\ stdout' = stdout \o <<"create_pr status", "done create_pr">>
            /\ exit_code' = "0"
            /\ pc' = "exited"
            /\ UNCHANGED stderr
    /\ UNCHANGED <<environ, file_exists, payload, jwt_token, installs, installation_id,
                   install_token, idx, body, r_get, r, requests, api_failure_seen>>

-----------------------------------------------------------------------------

Next ==
    \/ CheckIdentity
    \/ CheckEventPath
    \/ LoadEvent
    \/ LoadEventMalformed
    \/ ValidateOwner
    \/ CreateJwt
    \/ UseInstallationIdEnv
    \/ ListInstallations
    \/ FindMatch
    \/ CreateInstallationToken
    \/ Dispatch
    \/ UploadGet
    \/ UploadPut
    \/ UploadCheck
    \/ CreatePr
    \/ CheckPr

Spec == Init /\ [][Next]_vars

-----------------------------------------------------------------------------
(* Properties *)

Exited == pc = "exited"

Last(q) == q[Len(q)]

ContentsRequests == SelectSeq(requests, LAMBDA q : q.url.endpoint = "repos/contents")
PullsRequests == SelectSeq(requests, LAMBDA q : q.url.endpoint = "repos/pulls")
TokenRequests ==
    SelectSeq(requests, LAMBDA q : q.url.endpoint = "app/installations/access_tokens")
ListRequests == SelectSeq(requests, LAMBDA q : q.url.endpoint = "app/installations")

InUpload == action = "upload_files" /\ idx >= 1

\* C1: in upload_files the contents requests are GET, PUT, GET, PUT, ..., the j-th
\* pair for the j-th descriptor; a run in which every PUT is answered without an
\* error ends with status 0 after exactly N pairs; a PUT for descriptor k that is
\* answered with an error ends the run with status 1 after exactly k pairs, so
\* that nothing is requested for descriptors k+1..N and nothing is undone.
C1_PairsInOrderFailFast ==
    LET c == ContentsRequests
        N == Len(files)
    IN  /\ \A j \in 1..Len(c) :
              LET f == files[(j + 1) \div 2] IN
              /\ (j + 1) \div 2 <= N
              /\ c[j].method = (IF j % 2 = 1 THEN "GET" ELSE "PUT")
              /\ c[j].url.rest = Get(f, "path", None)
        /\ \A q \in 1..Len(requests) :
              requests[q].url.endpoint = "repos/contents" \/ q <= Len(requests) - Len(c)
        /\ c # <<>> => InUpload /\ ~Falsy(repo)
        /\ InUpload =>
              /\ pc = "upload_get" => Len(c) = 2 * (idx - 1) /\ (idx > 1 => Ok(r))
              /\ pc = "upload_put" => Len(c) = 2 * idx - 1
              /\ pc = "upload_check" => Len(c) = 2 * idx
              /\ Exited => /\ Len(c) = 2 * idx
                           /\ exit_code = "0" <=> (Ok(r) /\ idx = N)
                           /\ exit_code = "1" <=> ~Ok(r)

\* C1 witness: two descriptors, the PUT for the first answered with an error: the
\* run has ended with status 1 after one GET and one PUT.
C1_Witness ==
    /\ Exited /\ InUpload /\ Len(files) = 2 /\ idx = 1
    /\ ~Ok(r) /\ exit_code = "1" /\ Len(ContentsRequests) = 2

BadMetadataResponse == pc = "upload_put" /\ ~Ok(r_get) /\ r_get.status_code # 404
BadPutResponse == pc = "upload_check" /\ ~Ok(r)

\* C2: during upload_files an error response to the metadata GET, other than 404,
\* or to the PUT is followed by no further request: the process ends with status 1.
C2_AnyErrorResponseAborts ==
    [][(BadMetadataResponse \/ BadPutResponse)
          => (requests' = requests /\ pc' = "exited" /\ exit_code' = "1")]_vars

Diagnostics ==
    { "ERROR: APP_ID and APP_PRIVATE_KEY must be set as repo secrets.",
      "ERROR: GITHUB_EVENT_PATH not found.",
      "ERROR: client_payload.owner is required to locate installation.",
      "ERROR: No installation found for owner",
      "ERROR: repo and files are required for upload_files",
      "ERROR: repo and head are required for create_pr",
      "Unknown or missing action in client_payload:",
      "Response:",
      "create_pr status" }

\* C3: a run whose payload has no owner (missing or empty) or no action ends with a
\* non-zero status and a message (on either stream), never with status 0.
C3_MissingOwnerOrActionIsFatal ==
    (Exited /\ (NotOwner \/ "action" \notin DOMAIN payload))
        => /\ exit_code # "0"
           /\ (stdout # <<>> /\ Last(stdout) \in Diagnostics) \/ stderr # <<>>

\* A failure the claim names: a validation failure, or a failure after a request.
NamedFailure == exit_code = "1" /\ (stderr = <<>> \/ requests # <<>>)

\* C4: a run that fails on a validation or on a response of the API ends with
\* status 1 and a diagnostic line as the last line of standard output; a run ends
\* with status 0 only if no response was an error.
C4_EveryFailurePrintsToStdout ==
    Exited => /\ exit_code \in {"0", "1"}
              /\ NamedFailure => stdout # <<>> /\ Last(stdout) \in Diagnostics
              /\ exit_code = "0" => ~api_failure_seen

\* C5: with a non-empty INSTALLATION_ID no list-installations GET is issued, whatever
\* the owner, and the token POST names the override id; without one the first
\* request is the list-installations GET, which precedes the token POST.
C5_OverrideBypassesLookup ==
    /\ ~Falsy(installation_id_env) =>
          /\ ListRequests = <<>>
          /\ \A j \in 1..Len(TokenRequests) :
                TokenRequests[j].url.rest = installation_id_env
          /\ pc \in {"dispatch", "upload_get", "create_pr"} => Len(TokenRequests) = 1
    /\ Falsy(installation_id_env) =>
          /\ pc \in {"find_match", "create_token", "dispatch"} => Len(ListRequests) = 1
          /\ requests # <<>> =>
                /\ requests[1].url.endpoint = "app/installations"
                /\ requests[1].method = "GET"
          /\ \A j \in 1..Len(requests) :
                requests[j].url.endpoint = "app/installations/access_tokens" => j = 2

\* C5 witness: an owner is given, the override is set, and the token has been
\* requested for the override id without any lookup.
C5_Witness ==
    /\ ~NotOwner /\ installation_id_env = "77"
    /\ pc = "dispatch"
    /\ Len(requests) = 1
    /\ requests[1].method = "POST"
    /\ requests[1].url.rest = "77"

ActionValidationFailures ==
    { "ERROR: repo and files are required for upload_files",
      "ERROR: repo and head are required for create_pr",
      "Unknown or missing action in client_payload:" }

\* C6: a run that ends on a missing repo, files or head, or on an unknown or missing
\* action, has issued exactly one token POST and no contents or pulls request.
C6_TokenBeforeActionValidation ==
    (Exited /\ stdout # <<>> /\ Last(stdout) \in ActionValidationFailures)
        => /\ Len(TokenRequests) = 1
           /\ Last(requests).url.endpoint = "app/installations/access_tokens"
           /\ Last(requests).method = "POST"
           /\ ContentsRequests = <<>>
           /\ PullsRequests = <<>>
           /\ exit_code = "1"

\* C6 witness: upload_files without files has ended after the token was fetched.
C6_Witness ==
    /\ Exited
    /\ action = "upload_files"
    /\ files = <<>>
    /\ stdout # <<>>
    /\ Last(stdout) = "ERROR: repo and files are required for upload_files"
    /\ Len(TokenRequests) = 1

IdentityMissing == Falsy(APP_ID) \/ Falsy(APP_PRIVATE_KEY)
EventMissing == Falsy(EVENT_PATH) \/ ~file_exists

\* C7: with APP_ID or APP_PRIVATE_KEY unset or empty, or the event path unset or
\* naming no file, no request is ever issued, the event file is never read, and the
\* run can only end with status 1; the identity is checked first, so that its
\* message is the one printed when both are missing.
C7_NoNetworkWithoutIdentity ==
    /\ (IdentityMissing \/ EventMissing) =>
          /\ requests = <<>>
          /\ payload = EmptyDict
          /\ pc \in {"check_identity", "check_event_path", "exited"}
          /\ Exited => exit_code = "1"
    /\ IdentityMissing =>
          /\ pc \in {"check_identity", "exited"}
          /\ Exited =>
                stdout = <<"ERROR: APP_ID and APP_PRIVATE_KEY must be set as repo secrets.">>
    /\ pc \notin {"check_identity", "check_event_path", "exited"} =>
          ~IdentityMissing /\ ~EventMissing

\* C7 witness: the key is missing while the event file is there, and the run has
\* ended with status 1.
C7_Witness ==
    /\ Exited /\ exit_code = "1"
    /\ ~Falsy(APP_ID) /\ Falsy(APP_PRIVATE_KEY) /\ ~EventMissing
    /\ requests = <<>>

B64Index(c) == CHOOSE n \in 0..63 : B64Chars[n + 1] = c

RECURSIVE B64Decode(_)
B64Decode(s) ==
    IF Len(s) < 4 THEN <<>>
    ELSE LET a == B64Index(s[1])
             b == B64Index(s[2])
         IN  IF s[3] = "=" THEN <<a * 4 + (b \div 16)>>
             ELSE IF s[4] = "="
                  THEN <<a * 4 + (b \div 16), (b % 16) * 16 + (B64Index(s[3]) \div 4)>>
             ELSE <<a * 4 + (b \div 16), (b % 16) * 16 + (B64Index(s[3]) \div 4),
                    (B64Index(s[3]) % 4) * 64 + B64Index(s[4])>>
                  \o B64Decode(SubSeq(s, 5, Len(s)))

\* C8: the body of every PUT of upload_file has a sha field exactly when the
\* metadata GET before it returned 200, holding the hash that GET returned (none
\* after a 404); it has the descriptor's message, a content that decodes from
\* base64 to the UTF-8 bytes of the descriptor's content, a branch field exactly
\* when the descriptor names a non-empty branch, and no other field.
C8_PutBodyShaIffGet200 ==
    [][(pc = "upload_put" /\ pc' = "upload_check") =>
          LET q == Last(requests')
              f == files[idx]
          IN  /\ Len(requests') = Len(requests) + 1
              /\ q.method = "PUT"
              /\ ("sha" \in DOMAIN q.json) <=> (r_get.status_code = 200)
              /\ r_get.status_code = 200 => q.json.sha = Get(r_get.json, "sha", None)
              /\ r_get.status_code = 404 => "sha" \notin DOMAIN q.json
              /\ q.json.message = Get(f, "message", "automation upload")
              /\ Len(q.json.content) % 4 = 0
              /\ B64Decode(q.json.content) = Utf8Encode(Get(f, "content", <<>>))
              /\ ("branch" \in DOMAIN q.json) <=> ("branch" \in DOMAIN f /\ f.branch # "")
              /\ "branch" \in DOMAIN q.json => q.json.branch = f.branch
              /\ DOMAIN q.json \subseteq {"message", "content", "branch", "sha"}
       ]_vars

\* C8 witness: a PUT has been issued that carries the hash of an existing file, a
\* branch and a non-empty content.
C8_Witness ==
    /\ pc = "upload_check"
    /\ Last(requests).method = "PUT"
    /\ "sha" \in DOMAIN Last(requests).json
    /\ Last(requests).json.sha = "3b18e512"
    /\ "branch" \in DOMAIN Last(requests).json
    /\ Last(requests).json.content # <<>>

SameLetter(a, b) ==
    a = b \/ \E i \in 1..Len(UpperChars) : {a, b} = {UpperChars[i], LowerChars[i]}

EqualIgnoringCase(s, t) ==
    Len(s) = Len(t) /\ \A i \in 1..Len(s) : SameLetter(s[i], t[i])

Matches == {i \in 1..Len(installs) : EqualIgnoringCase(Login(installs[i]), payload.owner)}

\* C9: for an owner login, the lookup yields the id of the first installation of
\* the list whose account login equals the owner up to letter case; when there is
\* none the run ends with status 1 and the not-found message, without a token POST.
C9_FirstCaseInsensitiveMatch ==
    [][(pc = "find_match" /\ HasOwner) =>
          IF Matches = {}
          THEN /\ pc' = "exited"
               /\ exit_code' = "1"
               /\ Last(stdout') = "ERROR: No installation found for owner"
               /\ requests' = requests
               /\ TokenRequests = <<>>
          ELSE /\ \E i \in Matches :
                    /\ \A j \in Matches : i <= j
                    /\ installation_id' = installs[i].id
               /\ pc' = "create_token"
       ]_vars

\* C9 witness: owner "Acme" has been resolved from a list whose logins are "acme"
\* and "ACME", and the token is about to be requested.
C9_Witness ==
    /\ pc = "create_token"
    /\ Falsy(installation_id_env)
    /\ HasOwner /\ payload.owner = <<"A", "c", "m", "e">>
    /\ installation_id \in {"1", "2"}
    /\ Len(ListRequests) = 1

\* C10: create_pr with repo and head issues exactly one POST to the pulls endpoint,
\* whose body has exactly title, head, base and body, base being the payload's or
\* "main" when the payload has none; an error response ends the run with status 1.
C10_PrBodyAndDefaultBase ==
    LET ps == PullsRequests IN
    /\ Len(ps) <= 1
    /\ pc = "create_pr" => ps = <<>> /\ action = "create_pr"
    /\ (action = "create_pr" /\ ~Falsy(repo) /\ ~Falsy(head)
          /\ (pc = "check_pr" \/ (Exited /\ install_token # None))) =>
          /\ Len(ps) = 1
          /\ Last(requests) = ps[1]
          /\ ps[1].method = "POST"
          /\ DOMAIN ps[1].json = {"title", "head", "base", "body"}
          /\ ps[1].json.head = payload.head
          /\ ps[1].json.base = (IF "base" \in DOMAIN payload THEN payload.base ELSE "main")
          /\ ps[1].json.title =
                (IF "title" \in DOMAIN payload THEN payload.title ELSE "Automated PR")
          /\ ps[1].json.body = (IF "body" \in DOMAIN payload THEN payload.body ELSE "")
          /\ Exited => (exit_code = "1" <=> ~Ok(r)) /\ (exit_code = "0" <=> Ok(r))
    /\ ps # <<>> => action = "create_pr" /\ ~Falsy(repo) /\ ~Falsy(head)

\* C10 witness: the payload has no base, the POST was answered with an error and
\* the run has ended with status 1.
C10_Witness ==
    /\ Exited /\ exit_code = "1"
    /\ "base" \notin DOMAIN payload
    /\ Len(PullsRequests) = 1
    /\ PullsRequests[1].json.base = "main"
    /\ ~Ok(r)

====
